---- MODULE Spec2Model ----
(***************************************************************************)
(* Live voice session of src/components/LiveVoice.tsx.                     *)
(*                                                                         *)
(* The component keeps React state (active, status, transcription) and     *)
(* refs (audioContextRef, mediaStreamRef, sessionRef, nextStartTimeRef,    *)
(* outputNodeRef).  Every call of connect() creates its own closure: an    *)
(* output AudioContext, a microphone stream and a remote connection.  The  *)
(* closures are numbered 1, 2, ... in the order of the calls ("attempts"). *)
(*                                                                         *)
(* Time is counted in ticks of one global clock `now`; an AudioContext     *)
(* created at tick t reads currentTime = now - t.  Segment durations are   *)
(* whole ticks (a tick of 0.5 s makes durations 2 and 1 the segments of    *)
(* 1.0 s and 0.5 s).                                                       *)
(*                                                                         *)
(* onmessage is an async function: the part up to `await decodeAudioData`  *)
(* runs when the message is delivered, the rest runs as a promise          *)
(* continuation.  Continuations run in the order in which they were        *)
(* queued and before any other event-loop task, so `pending` is a FIFO     *)
(* queue and every task-level handler waits for it to drain; further       *)
(* message deliveries and the audio thread's clock are not tasks of this   *)
(* page and may happen in between.                                         *)
(***************************************************************************)
EXTENDS Integers, Sequences, FiniteSets, TLC

\* ---- bounds of the model ----
MaxAttempts == 2      \* calls of connect() per page load
MaxClock    == 2      \* ticks of the audio clock per page load
MaxMsgs     == 3      \* inbound messages per page load
MaxDur      == 2      \* longest decoded segment, in ticks
MaxFrames   == 3      \* frames of one session that are recorded one by one
MaxSamples  == 2      \* samples of an array given to the codec

Attempts  == 1..MaxAttempts
NoAudio   == 0                   \* message without inlineData
Malformed == -1                  \* audio payload of odd byte length
Audios    == {NoAudio, Malformed} \cup (1..MaxDur)
FrameSize == 4096                \* samples of one captured frame, line 52

\* the message shapes onmessage distinguishes (lines 67, 72-73)
\* text: the message carries a non-empty outputTranscription.text; the fragment
\* of the k-th delivered message is written k, so fragments are told apart
Messages == {m \in [text : BOOLEAN, audio : Audios] : m.text \/ m.audio # NoAudio}

VARIABLES
  hasKey,            \* line 22: apiKey is non-empty
  page,              \* "loaded" | "reloading" (window.location.reload pending)
  active,            \* line 6
  status,            \* line 7
  transcription,     \* line 8, as the sequence of appended fragments
  audioContextRef,   \* line 12: attempt whose output context it holds, 0 = null
  mediaStreamRef,    \* line 13
  sessionRef,        \* line 14
  nextStartTimeRef,  \* line 15
  outputNodeRef,     \* line 16: attempt whose context owns the gain node
  nAttempts,         \* number of connect() calls so far
  pc,                \* position of each connect() call
  conn,              \* state of each attempt's remote connection
  ctxState,          \* state of each attempt's output AudioContext
  ctxT0,             \* tick at which the attempt's output context was created
  mic,               \* state of each attempt's MediaStream
  capturing,         \* scriptProcessor.onaudioprocess installed (line 54)
  lastFrame,         \* fate of the latest captured frame: "none" | "sent" | "late"
  now,               \* global audio clock
  pending,           \* suspended onmessage handlers, oldest first: the session,
                     \* the payload, the arrival number and the number q of
                     \* handlers that were suspended when this one arrived
  arrivals,          \* number of messages delivered so far
  sched,             \* log of source.start calls: the session, the start time
                     \* passed, the duration, and the handler's arr and q
  logged,            \* whether this behaviour records its frames one by one
  captured,          \* per attempt: number of frames recorded so far
  waiting,           \* per attempt: chunks whose callback is queued on the
                     \* sessionPromise, which has not resolved, oldest first
  outbox,            \* per attempt: log of the recorded chunks handed to the
                     \* open session, in the order handed over
  codec,             \* one run of the PCM codec: the samples given to
                     \* createBlob, its chunk, and what decoding the chunk gave
  wav,               \* one call of pcmToWav: its arguments and its result
  retry,             \* one call of withRetry: what is left of retries, the
                     \* delay, the invocations of fn and the waits so far
  image,             \* one call of generateImage
  video,             \* one call of generateVideo
  app                \* the article editor of App.tsx: the displayed article
                     \* and the image generations in flight

vars == <<hasKey, page, active, status, transcription, audioContextRef,
          mediaStreamRef, sessionRef, nextStartTimeRef, outputNodeRef,
          nAttempts, pc, conn, ctxState, ctxT0, mic, capturing, lastFrame,
          now, pending, arrivals, sched, logged, captured, waiting, outbox,
          codec, wav, retry, image, video, app>>

uiVars  == <<active, status, transcription>>
refVars == <<audioContextRef, mediaStreamRef, sessionRef, nextStartTimeRef, outputNodeRef>>
attVars == <<nAttempts, pc, conn, ctxState, ctxT0, mic, capturing, lastFrame>>
msgVars == <<pending, arrivals, sched>>
frameVars == <<logged, captured, waiting, outbox>>
fnVars  == <<codec, wav, retry, image, video, app>>
liveVars == <<hasKey, page, uiVars, refVars, attVars, now, msgVars, frameVars>>

\* Math.max, line 74
Max(x, y) == IF x >= y THEN x ELSE y

\* outputAudioContext.currentTime of attempt a, lines 34 and 74
currentTime(a) == now - ctxT0[a]

\* state of a freshly loaded page: the useState/useRef initial values, lines 6-16
Fresh(k) ==
  /\ hasKey = k
  /\ page = "loaded"
  /\ active = FALSE
  /\ status = "Ready to connect"
  /\ transcription = <<>>
  /\ audioContextRef = 0
  /\ mediaStreamRef = 0
  /\ sessionRef = 0
  /\ nextStartTimeRef = 0
  /\ outputNodeRef = 0
  /\ nAttempts = 0
  /\ pc = [a \in Attempts |-> "none"]
  /\ conn = [a \in Attempts |-> "none"]
  /\ ctxState = [a \in Attempts |-> "none"]
  /\ ctxT0 = [a \in Attempts |-> 0]
  /\ mic = [a \in Attempts |-> "none"]
  /\ capturing = [a \in Attempts |-> FALSE]
  /\ lastFrame = "none"
  /\ now = 0
  /\ pending = <<>>
  /\ arrivals = 0
  /\ sched = <<>>
  /\ captured = [a \in Attempts |-> 0]
  /\ waiting = [a \in Attempts |-> <<>>]
  /\ outbox = [a \in Attempts |-> <<>>]

\* the helpers of the component and of src/services/gemini.ts before any call
Idle == [pc |-> "idle"]

NoCall ==
  /\ codec = Idle /\ wav = Idle /\ retry = Idle
  /\ image = Idle /\ video = Idle /\ app = Idle

Init == \E k \in BOOLEAN : Fresh(k) /\ logged = FALSE /\ NoCall

\* no promise continuation is queued: the event loop can run the next task
EventLoopFree == page = "loaded" /\ pending = <<>>

\* ---- connect(), lines 18-110 ----

\* the credential check placed after the audio contexts are created
ConnectNoKeyLate(a) ==
  /\ status' = "Missing API key"
  /\ active' = FALSE
  /\ pc' = [pc EXCEPT ![a] = "nokey"]
  /\ ctxState' = [ctxState EXCEPT ![a] = "running"]
  /\ ctxT0' = [ctxT0 EXCEPT ![a] = now]
  /\ audioContextRef' = a
  /\ outputNodeRef' = a
  /\ UNCHANGED <<transcription, mediaStreamRef, sessionRef, nextStartTimeRef,
                 conn, mic>>

\* lines 19-28: the credential check fails; the call returns at line 27
ConnectNoKey(a) ==
  /\ status' = "Missing API key"
  /\ active' = FALSE
  /\ pc' = [pc EXCEPT ![a] = "nokey"]
  /\ UNCHANGED <<transcription, refVars, conn, ctxState, ctxT0, mic>>

\* the start that also clears the cursor and the transcript
ConnectToGumReset(a) ==
  /\ status' = "Connecting..."
  /\ ctxState' = [ctxState EXCEPT ![a] = "running"]
  /\ ctxT0' = [ctxT0 EXCEPT ![a] = now]
  /\ audioContextRef' = a
  /\ outputNodeRef' = a
  /\ pc' = [pc EXCEPT ![a] = "gum"]
  /\ nextStartTimeRef' = 0
  /\ transcription' = <<>>
  /\ UNCHANGED <<active, mediaStreamRef, sessionRef, conn, mic>>

\* lines 19-40: the contexts are created, then the call suspends in getUserMedia
ConnectToGum(a) ==
  /\ status' = "Connecting..."
  /\ ctxState' = [ctxState EXCEPT ![a] = "running"]
  /\ ctxT0' = [ctxT0 EXCEPT ![a] = now]
  /\ audioContextRef' = a
  /\ outputNodeRef' = a
  /\ pc' = [pc EXCEPT ![a] = "gum"]
  /\ UNCHANGED <<active, transcription, mediaStreamRef, sessionRef,
                 nextStartTimeRef, conn, mic>>

\* the Start button, line 210: onClick is connect while active is false
connect ==
  /\ EventLoopFree
  /\ ~active
  /\ nAttempts < MaxAttempts
  /\ nAttempts' = nAttempts + 1
  /\ IF hasKey THEN ConnectToGum(nAttempts + 1) ELSE ConnectNoKey(nAttempts + 1)
  /\ UNCHANGED <<fnVars, hasKey, frameVars, page, capturing, lastFrame, now, msgVars>>

\* the audio callback installed as soon as the connection is requested
CaptureOnIssueEarly(c, a) == [c EXCEPT ![a] = TRUE]

\* lines 43-54: the audio callback is installed inside onopen, so issuing the
\* connection starts no capture
CaptureOnIssue(c, a) == c

\* lines 40-103: getUserMedia resolves; ai.live.connect is called and connect returns
gumResolved(a) ==
  /\ EventLoopFree
  /\ pc[a] = "gum"
  /\ mic' = [mic EXCEPT ![a] = "live"]
  /\ mediaStreamRef' = a
  /\ conn' = [conn EXCEPT ![a] = "connecting"]
  /\ sessionRef' = a
  /\ pc' = [pc EXCEPT ![a] = "issued"]
  /\ capturing' = CaptureOnIssue(capturing, a)
  /\ UNCHANGED <<fnVars, hasKey, frameVars, page, uiVars, audioContextRef, nextStartTimeRef,
                 outputNodeRef, nAttempts, ctxState, ctxT0,
                 lastFrame, now, msgVars>>

\* the rejection swallowed and the remote connection opened without a stream
GumCatchConnects(a) ==
  /\ conn' = [conn EXCEPT ![a] = "connecting"]
  /\ sessionRef' = a
  /\ pc' = [pc EXCEPT ![a] = "caught"]
  /\ UNCHANGED <<uiVars, audioContextRef, mediaStreamRef, nextStartTimeRef,
                 outputNodeRef, nAttempts, ctxState, ctxT0, mic>>

\* lines 40, 105-109: getUserMedia rejects and the catch block runs
GumCatch(a) ==
  /\ status' = "Failed to connect"
  /\ active' = FALSE
  /\ pc' = [pc EXCEPT ![a] = "caught"]
  /\ UNCHANGED <<transcription, refVars, nAttempts, conn, ctxState, ctxT0, mic>>

gumRejected(a) ==
  /\ EventLoopFree
  /\ pc[a] = "gum"
  /\ GumCatch(a)
  /\ UNCHANGED <<fnVars, hasKey, frameVars, page, capturing, lastFrame, now, msgVars>>

\* line 43: the promise of ai.live.connect rejects; it is neither awaited nor
\* given a rejection handler, so no code of the component runs
connectRejected(a) ==
  /\ EventLoopFree
  /\ conn[a] = "connecting"
  /\ conn' = [conn EXCEPT ![a] = "rejected"]
  /\ UNCHANGED <<fnVars, hasKey, frameVars, page, uiVars, refVars, nAttempts, pc, ctxState, ctxT0,
                 mic, capturing, lastFrame, now, msgVars>>

\* ---- the callbacks, lines 46-92 ----

\* lines 46-64; the connect call returns once onopen has run, so sessionPromise
\* resolves within the same task and its waiting callbacks run in order
onopen(a) ==
  /\ EventLoopFree
  /\ conn[a] = "connecting"
  /\ conn' = [conn EXCEPT ![a] = "open"]
  /\ status' = "Connected - Listening..."
  /\ active' = TRUE
  /\ capturing' = [capturing EXCEPT ![a] = TRUE]
  /\ pc' = [pc EXCEPT ![a] = "resolved"]
  /\ outbox' = [outbox EXCEPT ![a] = @ \o waiting[a]]
  /\ waiting' = [waiting EXCEPT ![a] = <<>>]
  /\ UNCHANGED <<fnVars, hasKey, logged, captured, page, transcription, refVars,
                 nAttempts, ctxState, ctxT0, mic, lastFrame, now, msgVars>>

\* the chunk sized in bytes instead of samples
createBlobBytes(data) ==
  [id |-> data.id, n |-> 2 * data.n, mimeType |-> "audio/pcm;rate=16000"]

\* lines 125-139: one 16-bit sample per input sample, tagged with the rate
createBlob(data) ==
  [id |-> data.id, n |-> data.n, mimeType |-> "audio/pcm;rate=16000"]

\* line 55: the frame handed to the callback; id is its number in capture order
inputData(a) == [id |-> captured[a] + 1, n |-> FrameSize]

\* lines 54-60: a captured frame is encoded; the callback given to
\* sessionPromise.then runs at once when the promise has resolved and waits
\* otherwise; sendRealtimeInput reaches the server while the session is open
onaudioprocess(a) ==
  /\ EventLoopFree
  /\ capturing[a]
  /\ logged => captured[a] < MaxFrames
  /\ captured' = IF logged THEN [captured EXCEPT ![a] = @ + 1] ELSE captured
  /\ IF pc[a] = "resolved"
       THEN /\ lastFrame' = IF conn[a] = "open" THEN "sent" ELSE "late"
            /\ outbox' = IF logged /\ conn[a] = "open"
                            THEN [outbox EXCEPT ![a] =
                                    Append(@, createBlob(inputData(a)))]
                            ELSE outbox
            /\ UNCHANGED waiting
       ELSE /\ waiting' = [waiting EXCEPT ![a] =
                             Append(@, createBlob(inputData(a)))]
            /\ UNCHANGED <<lastFrame, outbox>>
  /\ UNCHANGED <<fnVars, hasKey, logged, page, uiVars, refVars, nAttempts, pc, conn,
                 ctxState, ctxT0, mic, capturing, now, msgVars>>

\* continuations resumed newest first
SuspendFront(q, h) == <<h>> \o q

\* line 75, `await`: the continuation is queued behind those already queued
Suspend(q, h) == Append(q, h)

\* the fragment taken only from a message that carries audio too
TranscribeWithAudio(t, m, k) ==
  IF m.text /\ m.audio # NoAudio THEN Append(t, k) ELSE t

\* the fragment put in front of the transcript
TranscribeFront(t, m, k) == IF m.text THEN <<k>> \o t ELSE t

\* lines 66-69: the transcript fragment of a message
Transcribe(t, m, k) == IF m.text THEN Append(t, k) ELSE t

\* the cursor set to the clock instead of the larger of the two
AbsorbDelayReset(n, clock) == clock

\* line 74
AbsorbDelay(n, clock) == Max(n, clock)

\* lines 65-75: onmessage up to its await.  disconnect() closes no
\* connection (lines 112-122) and the page lives on until the reloaded document
\* replaces it, so a message is delivered in that interval as well
onmessage(a, m) ==
  /\ conn[a] = "open"
  /\ arrivals < MaxMsgs
  /\ arrivals' = arrivals + 1
  /\ transcription' = Transcribe(transcription, m, arrivals + 1)
  /\ IF m.audio # NoAudio
       THEN /\ nextStartTimeRef' = AbsorbDelay(nextStartTimeRef, currentTime(a))
            /\ pending' = Suspend(pending,
                 [sess |-> a, audio |-> m.audio, text |-> m.text,
                  arr |-> arrivals + 1, q |-> Len(pending)])
       ELSE UNCHANGED <<nextStartTimeRef, pending>>
  /\ UNCHANGED <<fnVars, hasKey, frameVars, page, active, status, audioContextRef, mediaStreamRef,
                 sessionRef, outputNodeRef, attVars, now, sched>>

\* lines 150-153: new Int16Array(data.buffer) throws on an odd byte length
DecodeThrows(h) == h.audio = Malformed

\* line 79: connecting to a node of another AudioContext throws
ConnectThrows(h) == outputNodeRef # h.sess

\* lines 80-81
Schedule(h) ==
  /\ sched' = Append(sched, [sess |-> h.sess, start |-> nextStartTimeRef,
                             dur |-> h.audio, arr |-> h.arr, q |-> h.q])
  /\ nextStartTimeRef' = nextStartTimeRef + h.audio

\* line 77 on a closed AudioContext: a build either throws InvalidStateError
\* or creates the node
ClosedOutcomes(h) == IF ctxState[h.sess] = "closed" THEN BOOLEAN ELSE {FALSE}

\* lines 75-82: onmessage after its await
onmessageResume ==
  /\ pending # <<>>
  /\ pending' = Tail(pending)
  /\ \E thrown \in ClosedOutcomes(Head(pending)) :
       IF DecodeThrows(Head(pending)) \/ thrown \/ ConnectThrows(Head(pending))
         THEN UNCHANGED <<sched, nextStartTimeRef>>
         ELSE Schedule(Head(pending))
  /\ UNCHANGED <<fnVars, hasKey, frameVars, page, uiVars, audioContextRef, mediaStreamRef,
                 sessionRef, outputNodeRef, attVars, now, arrivals>>

\* lines 84-87
onclose(a) ==
  /\ EventLoopFree
  /\ conn[a] \in {"connecting", "open", "error"}
  /\ conn' = [conn EXCEPT ![a] = "closed"]
  /\ status' = "Disconnected"
  /\ active' = FALSE
  /\ UNCHANGED <<fnVars, hasKey, frameVars, page, transcription, refVars, nAttempts, pc, ctxState,
                 ctxT0, mic, capturing, lastFrame, now, msgVars>>

\* the error callback that starts the next attempt itself
onerrorReconnect(a) ==
  /\ EventLoopFree
  /\ conn[a] \in {"connecting", "open"}
  /\ nAttempts < MaxAttempts
  /\ conn' = [conn EXCEPT ![a] = "error"]
  /\ active' = FALSE
  /\ nAttempts' = nAttempts + 1
  /\ status' = "Connecting..."
  /\ ctxState' = [ctxState EXCEPT ![nAttempts + 1] = "running"]
  /\ ctxT0' = [ctxT0 EXCEPT ![nAttempts + 1] = now]
  /\ audioContextRef' = nAttempts + 1
  /\ outputNodeRef' = nAttempts + 1
  /\ pc' = [pc EXCEPT ![nAttempts + 1] = "gum"]
  /\ UNCHANGED <<fnVars, hasKey, frameVars, page, transcription, mediaStreamRef,
                 sessionRef, nextStartTimeRef, mic, capturing, lastFrame, now,
                 msgVars>>

\* lines 88-92
onerror(a) ==
  /\ EventLoopFree
  /\ conn[a] \in {"connecting", "open"}
  /\ conn' = [conn EXCEPT ![a] = "error"]
  /\ status' = "Error occurred"
  /\ active' = FALSE
  /\ UNCHANGED <<fnVars, hasKey, frameVars, page, transcription, refVars, nAttempts, pc, ctxState,
                 ctxT0, mic, capturing, lastFrame, now, msgVars>>

\* ---- disconnect(), lines 112-122 ----

\* lines 113-115
StopTracks(m) ==
  IF mediaStreamRef # 0 THEN [m EXCEPT ![mediaStreamRef] = "stopped"] ELSE m

\* lines 116-118
CloseContext(c) ==
  IF audioContextRef # 0 THEN [c EXCEPT ![audioContextRef] = "closed"] ELSE c

\* the End Session button, line 210: onClick is disconnect while active is true
disconnect ==
  /\ EventLoopFree
  /\ active
  /\ mic' = StopTracks(mic)
  /\ ctxState' = CloseContext(ctxState)
  /\ active' = FALSE
  /\ status' = "Disconnected"
  /\ page' = "reloading"
  /\ UNCHANGED <<fnVars, hasKey, frameVars, transcription, refVars, nAttempts, pc, conn, ctxT0,
                 capturing, lastFrame, now, msgVars>>

\* line 121: the reload discards the page with every stream, context and connection
reload ==
  /\ page = "reloading"
  /\ page' = "loaded"
  /\ active' = FALSE
  /\ status' = "Ready to connect"
  /\ transcription' = <<>>
  /\ audioContextRef' = 0
  /\ mediaStreamRef' = 0
  /\ sessionRef' = 0
  /\ nextStartTimeRef' = 0
  /\ outputNodeRef' = 0
  /\ nAttempts' = 0
  /\ pc' = [a \in Attempts |-> "none"]
  /\ conn' = [a \in Attempts |-> "none"]
  /\ ctxState' = [a \in Attempts |-> "none"]
  /\ ctxT0' = [a \in Attempts |-> 0]
  /\ mic' = [a \in Attempts |-> "none"]
  /\ capturing' = [a \in Attempts |-> FALSE]
  /\ lastFrame' = "none"
  /\ now' = 0
  /\ pending' = <<>>
  /\ arrivals' = 0
  /\ sched' = <<>>
  /\ captured' = [a \in Attempts |-> 0]
  /\ waiting' = [a \in Attempts |-> <<>>]
  /\ outbox' = [a \in Attempts |-> <<>>]
  /\ UNCHANGED <<fnVars, hasKey, logged>>

\* the audio thread advances every running context's currentTime
tick ==
  /\ page = "loaded"
  /\ \E a \in Attempts : ctxState[a] = "running"
  /\ now < MaxClock
  /\ now' = now + 1
  /\ UNCHANGED <<fnVars, hasKey, frameVars, page, uiVars, refVars, attVars, msgVars>>

Next ==
  \/ connect
  \/ \E a \in Attempts : gumResolved(a)
  \/ \E a \in Attempts : gumRejected(a)
  \/ \E a \in Attempts : connectRejected(a)
  \/ \E a \in Attempts : onopen(a)
  \/ \E a \in Attempts : onaudioprocess(a)
  \/ \E a \in Attempts, m \in Messages : onmessage(a, m)
  \/ onmessageResume
  \/ \E a \in Attempts : onclose(a)
  \/ \E a \in Attempts : onerror(a)
  \/ disconnect
  \/ reload
  \/ tick

Spec == Init /\ [][Next]_vars

\* The lifecycle alone: connect, its two awaits, the four callbacks that end
\* or open a session, and disconnect.  The steps left out (message delivery
\* and resumption, the audio clock, the capture callback) change none of
\* hasKey, page, active, status, the refs other than nextStartTimeRef,
\* nAttempts, pc, conn, ctxState and mic.
NextLifecycle ==
  \/ connect
  \/ \E a \in Attempts : gumResolved(a)
  \/ \E a \in Attempts : gumRejected(a)
  \/ \E a \in Attempts : connectRejected(a)
  \/ \E a \in Attempts : onopen(a)
  \/ \E a \in Attempts : onclose(a)
  \/ \E a \in Attempts : onerror(a)
  \/ disconnect
  \/ reload

SpecLifecycle == Init /\ [][NextLifecycle]_vars

\* The capture path: the lifecycle and the audio callback, with every frame
\* recorded.
InitCapture == \E k \in BOOLEAN : Fresh(k) /\ logged = TRUE /\ NoCall

NextCapture ==
  \/ connect
  \/ \E a \in Attempts : gumResolved(a)
  \/ \E a \in Attempts : gumRejected(a)
  \/ \E a \in Attempts : connectRejected(a)
  \/ \E a \in Attempts : onopen(a)
  \/ \E a \in Attempts : onaudioprocess(a)
  \/ \E a \in Attempts : onclose(a)
  \/ \E a \in Attempts : onerror(a)
  \/ disconnect
  \/ reload

SpecCapture == InitCapture /\ [][NextCapture]_vars

\* ---- what the attempts hold ----

\* attempt a is Connecting, Listening or in Error and has not reached Closed
Live(a) == pc[a] = "gum" \/ conn[a] \in {"connecting", "open", "error"}

\* session a reached Listening (onopen ran) and has since ended
Ended(a) == capturing[a] /\ conn[a] \in {"error", "closed"}

\* the Start button would call connect
StartPermitted == page = "loaded" /\ pending = <<>> /\ ~active

\* this step is a user start issued when an earlier session has ended and
\* no session is live
Restart ==
  /\ nAttempts' = nAttempts + 1
  /\ hasKey
  /\ \E b \in Attempts : conn[b] \in {"closed", "error"}
  /\ \A b \in Attempts : ~Live(b)

\* this step delivers a message (lines 65-75 run)
Delivered == arrivals' = arrivals + 1

\* this step delivers a message with audio data: its handler is suspended
Suspended == Delivered /\ Len(pending') = Len(pending) + 1

\* the handler suspended by this step
Latest == pending'[Len(pending')]

\* this step delivers a message without audio data; such a message carries a
\* fragment, see Messages
TextOnlyDelivered == Delivered /\ pending' = pending

\* this step resumes the oldest suspended handler (lines 75-82 run)
Resumed == pending # <<>> /\ pending' = Tail(pending) /\ page' = page

\* the chunks of attempt a that reached the server, in the order sent
SentBy(a) == outbox[a]

\* this step hands a segment to the output device (source.start, line 80)
Scheduling == Len(sched') = Len(sched) + 1

\* the segment this step schedules
Newest == sched'[Len(sched')]

\* after this step, i and j are consecutive segments of one session in the log
Consecutive(i, j) ==
  /\ i < j
  /\ sched'[i].sess = sched'[j].sess
  /\ \A k \in (i+1)..(j-1) : sched'[k].sess # sched'[i].sess

\* ---- the PCM codec, lines 125-161 ----
\*
\* A sample is written as a whole number of 1/65536: the sample 1.0 is 65536,
\* one 16-bit quantization step (1/32768) is 2.  A base64 text is the sequence
\* of its digits 0..63, with 64 for the padding sign.

\* sample values given to the codec: the ends and the middle of [-1, 1],
\* values between two quantization steps, and values outside the range
Samples ==
  {-131072, -65538, -65537, -65536, -65535, -32769, -3, -2, -1, 0,
   1, 2, 3, 32767, 65534, 65535, 65536, 65537, 131072}

\* the arrays of at most n samples
RECURSIVE ArraysUpTo(_)
ArraysUpTo(n) ==
  IF n = 0 THEN {<<>>}
  ELSE LET shorter == ArraysUpTo(n - 1)
       IN  shorter \cup {Append(a, x) : a \in {b \in shorter : Len(b) = n - 1},
                                         x \in Samples}

\* the conversion that saturates at the ends of the 16-bit range
ToInt16Clamp(x) ==
  LET t == IF x >= 0 THEN x \div 2 ELSE -((-x) \div 2)
  IN  IF t > 32767 THEN 32767 ELSE IF t < -32768 THEN -32768 ELSE t

\* line 129: data[i] * 32768 stored into an Int16Array element: the fraction
\* is dropped (toward zero) and the integer is taken modulo 2^16
ToInt16(x) ==
  LET t == IF x >= 0 THEN x \div 2 ELSE -((-x) \div 2)
      u == t % 65536
  IN  IF u >= 32768 THEN u - 65536 ELSE u

\* line 131: the two bytes of a 16-bit element as a Uint8Array shows them
BytesOf(v) == LET u == v % 65536 IN <<u % 256, u \div 256>>

\* lines 127-131: the bytes of the Int16Array filled from data
RECURSIVE Int16Bytes(_)
Int16Bytes(data) ==
  IF data = <<>> THEN <<>>
  ELSE BytesOf(ToInt16(Head(data))) \o Int16Bytes(Tail(data))

\* btoa, line 136
RECURSIVE btoa(_)
btoa(b) ==
  IF Len(b) = 0 THEN <<>>
  ELSE IF Len(b) = 1
    THEN <<b[1] \div 4, (b[1] % 4) * 16, 64, 64>>
  ELSE IF Len(b) = 2
    THEN <<b[1] \div 4, (b[1] % 4) * 16 + b[2] \div 16, (b[2] % 16) * 4, 64>>
  ELSE <<b[1] \div 4, (b[1] % 4) * 16 + b[2] \div 16,
         (b[2] % 16) * 4 + b[3] \div 64, b[3] % 64>>
       \o btoa(SubSeq(b, 4, Len(b)))

\* atob, line 142
RECURSIVE atob(_)
atob(t) ==
  IF Len(t) = 0 THEN <<>>
  ELSE LET b1 == t[1] * 4 + t[2] \div 16
           b2 == (t[2] % 16) * 16 + t[3] \div 4
           b3 == (t[3] % 4) * 64 + t[4]
       IN  IF t[3] = 64 THEN <<b1>>
           ELSE IF t[4] = 64 THEN <<b1, b2>>
           ELSE <<b1, b2, b3>> \o atob(SubSeq(t, 5, Len(t)))

\* lines 125-139, on the samples of a frame
createBlobOf(data) ==
  [data |-> btoa(Int16Bytes(data)), mimeType |-> "audio/pcm;rate=16000"]

\* lines 141-148
decode(base64) == atob(base64)

\* lines 151 and 157: the elements of new Int16Array(data.buffer), each
\* divided by 32768.0
RECURSIVE ChannelData(_)
ChannelData(bytes) ==
  IF bytes = <<>> THEN <<>>
  ELSE LET u == bytes[1] + 256 * bytes[2]
           v == IF u >= 32768 THEN u - 65536 ELSE u
       IN  <<2 * v>> \o ChannelData(SubSeq(bytes, 3, Len(bytes)))

\* lines 150-161: new Int16Array throws RangeError on an odd byte length, and
\* createBuffer throws NotSupportedError for a length of 0 frames
decodeAudioData(data, numChannels) ==
  IF Len(data) % 2 # 0 THEN [error |-> "RangeError"]
  ELSE IF (Len(data) \div 2) \div numChannels = 0
    THEN [error |-> "NotSupportedError"]
  ELSE [error |-> "none", samples |-> ChannelData(data)]

\* createBlob is called on a frame
encode ==
  /\ codec.pc = "given"
  /\ codec' = [codec EXCEPT !.pc = "encoded", !.blob = createBlobOf(codec.data)]
  /\ UNCHANGED <<liveVars, wav, retry, image, video, app>>

\* the chunk is decoded as line 75 decodes a payload
decodeChunk ==
  /\ codec.pc = "encoded"
  /\ codec' = [codec EXCEPT !.pc = "decoded",
                !.buffer = decodeAudioData(decode(codec.blob.data), 1)]
  /\ UNCHANGED <<liveVars, wav, retry, image, video, app>>

InitCodec ==
  /\ Fresh(FALSE) /\ logged = FALSE
  /\ \E d \in ArraysUpTo(MaxSamples) :
       codec = [pc |-> "given", data |-> d, blob |-> <<>>, buffer |-> <<>>]
  /\ wav = Idle /\ retry = Idle /\ image = Idle /\ video = Idle /\ app = Idle

NextCodec == encode \/ decodeChunk

SpecCodec == InitCodec /\ [][NextCodec]_vars

\* every sample of the array lies in [-1.0, 1.0]
InRange(data) == \A i \in 1..Len(data) : data[i] >= -65536 /\ data[i] <= 65536

\* the distance of two samples
Dist(x, y) == IF x >= y THEN x - y ELSE y - x

\* ---- pcmToWav, src/services/gemini.ts lines 9-13 and 36-90 ----

MaxPcm == 3      \* bytes of the PCM input of one call

\* values of the PCM bytes and sample rates of the calls
PcmBytes    == {0, 128, 255}
SampleRates == {16000, 24000, 48000}

\* the PCM inputs of at most n bytes
RECURSIVE PcmUpTo(_)
PcmUpTo(n) ==
  IF n = 0 THEN {<<>>}
  ELSE LET shorter == PcmUpTo(n - 1)
       IN  shorter \cup {Append(a, x) : a \in {b \in shorter : Len(b) = n - 1},
                                         x \in PcmBytes}

\* string.charCodeAt over the four tags of the header
charCodes(string) ==
  CASE string = "RIFF" -> <<82, 73, 70, 70>>
    [] string = "WAVE" -> <<87, 65, 86, 69>>
    [] string = "fmt " -> <<102, 109, 116, 32>>
    [] string = "data" -> <<100, 97, 116, 97>>

\* lines 9-13; view is the 44 bytes of the header, indexed from 0
writeString(view, offset, string) ==
  [i \in DOMAIN view |->
     IF i >= offset /\ i < offset + Len(charCodes(string))
       THEN charCodes(string)[i - offset + 1]
       ELSE view[i]]

\* a DataView.setUint32 that writes the high byte first
setUint32BE(view, offset, value) ==
  [view EXCEPT ![offset]     = (value \div 16777216) % 256,
               ![offset + 1] = (value \div 65536) % 256,
               ![offset + 2] = (value \div 256) % 256,
               ![offset + 3] = value % 256]

\* DataView.setUint32(offset, value, true): the four low bytes of the value
\* (the value modulo 2^32), low byte first
setUint32(view, offset, value) ==
  [view EXCEPT ![offset]     = value % 256,
               ![offset + 1] = (value \div 256) % 256,
               ![offset + 2] = (value \div 65536) % 256,
               ![offset + 3] = (value \div 16777216) % 256]

\* DataView.setUint16(offset, value, true): modulo 2^16, low byte first
setUint16(view, offset, value) ==
  LET u == value % 65536
  IN  [view EXCEPT ![offset] = u % 256, ![offset + 1] = u \div 256]

\* line 84
chunkSize == 32768

\* lines 81-88: the binary string built chunk by chunk
RECURSIVE fromChunks(_)
fromChunks(bytes) ==
  IF Len(bytes) <= chunkSize THEN bytes
  ELSE SubSeq(bytes, 1, chunkSize) \o fromChunks(SubSeq(bytes, chunkSize + 1, Len(bytes)))

\* lines 36-90
pcmToWav(pcmBase64, sampleRate) ==
  LET pcmBinary == atob(pcmBase64)
      pcmLen == Len(pcmBinary)
      v0  == [i \in 0..43 |-> 0]
      v1  == writeString(v0, 0, "RIFF")
      v2  == setUint32(v1, 4, 36 + pcmLen)
      v3  == writeString(v2, 8, "WAVE")
      v4  == writeString(v3, 12, "fmt ")
      v5  == setUint32(v4, 16, 16)
      v6  == setUint16(v5, 20, 1)
      v7  == setUint16(v6, 22, 1)
      v8  == setUint32(v7, 24, sampleRate)
      v9  == setUint32(v8, 28, sampleRate * 2)
      v10 == setUint16(v9, 32, 2)
      v11 == setUint16(v10, 34, 16)
      v12 == writeString(v11, 36, "data")
      view == setUint32(v12, 40, pcmLen)
      headerBytes == [i \in 1..44 |-> view[i - 1]]
      wavBytes == headerBytes \o pcmBinary
  IN  btoa(fromChunks(wavBytes))

\* line 388: the speech service wraps the PCM it received
wrap ==
  /\ wav.pc = "given"
  /\ wav' = [wav EXCEPT !.pc = "done",
                         !.result = pcmToWav(wav.pcmBase64, wav.sampleRate)]
  /\ UNCHANGED <<liveVars, codec, retry, image, video, app>>

InitWav ==
  /\ Fresh(FALSE) /\ logged = FALSE
  /\ \E b \in PcmUpTo(MaxPcm), r \in SampleRates :
       wav = [pc |-> "given", pcm |-> b, pcmBase64 |-> btoa(b),
              sampleRate |-> r, result |-> <<>>]
  /\ codec = Idle /\ retry = Idle /\ image = Idle /\ video = Idle /\ app = Idle

NextWav == wrap

SpecWav == InitWav /\ [][NextWav]_vars

\* the unsigned numbers read low byte first at a position of a byte sequence
\* indexed from 0
Uint16At(bytes, offset) == bytes[offset + 1] + 256 * bytes[offset + 2]
Uint32At(bytes, offset) ==
  bytes[offset + 1] + 256 * bytes[offset + 2]
    + 65536 * bytes[offset + 3] + 16777216 * bytes[offset + 4]

\* ---- withRetry, src/services/gemini.ts lines 18-30 ----

MaxRetries == 3      \* the retries argument of a call; 3 is the default

\* the delay argument of a call, in ms; 1000 is the default
Delays == {500, 1000}

\* what fn can throw: an error has a status (0: none) and a message, written
\* as the sequence of its words
Errors ==
  { [status |-> 503, message |-> <<"overloaded">>],
    [status |-> 500, message |-> <<"internal">>],
    [status |-> 429, message |-> <<"quota">>],
    [status |-> 0,   message |-> <<"model", "unavailable">>],
    [status |-> 0,   message |-> <<"Service", "Unavailable">>],
    [status |-> 404, message |-> <<"Requested", "entity", "was", "not", "found">>] }

\* String.prototype.includes for a phrase, case-sensitive
includes(message, phrase) ==
  \E i \in 0..(Len(message) - Len(phrase)) :
    SubSeq(message, i + 1, i + Len(phrase)) = phrase

\* a catch that retries whatever was thrown
shouldRetryAny(error) == TRUE

\* line 22
shouldRetry(error) ==
  \/ error.status = 503
  \/ error.status = 500
  \/ error.status = 429
  \/ includes(error.message, <<"unavailable">>)

\* line 23
retriesAgain(retries, error) == retries > 0 /\ shouldRetry(error)

\* line 20: fn resolves and its value is returned
fnResolves ==
  /\ retry.pc = "calling"
  /\ retry' = [retry EXCEPT !.pc = "returned", !.calls = @ + 1]
  /\ UNCHANGED <<liveVars, codec, wav, image, video, app>>

\* lines 20-28: fn rejects with error; the catch either starts the timer of
\* line 25 or rethrows
fnRejects(error) ==
  /\ retry.pc = "calling"
  /\ retry' = [retry EXCEPT
                 !.pc = IF retriesAgain(retry.retries, error)
                          THEN "waiting" ELSE "thrown",
                 !.calls = @ + 1,
                 !.errors = Append(@, error)]
  /\ UNCHANGED <<liveVars, codec, wav, image, video, app>>

\* lines 25-26: the timer fires and withRetry(fn, retries - 1, delay * 2) runs
timerFires ==
  /\ retry.pc = "waiting"
  /\ retry' = [retry EXCEPT !.pc = "calling",
                             !.waits = Append(@, retry.delay),
                             !.retries = @ - 1,
                             !.delay = @ * 2]
  /\ UNCHANGED <<liveVars, codec, wav, image, video, app>>

InitRetry ==
  /\ Fresh(FALSE) /\ logged = FALSE
  /\ \E r \in 0..MaxRetries, d \in Delays :
       retry = [pc |-> "calling", retries0 |-> r, delay0 |-> d,
                retries |-> r, delay |-> d,
                calls |-> 0, waits |-> <<>>, errors |-> <<>>]
  /\ codec = Idle /\ wav = Idle /\ image = Idle /\ video = Idle /\ app = Idle

NextRetry ==
  \/ fnResolves
  \/ \E error \in Errors : fnRejects(error)
  \/ timerFires

SpecRetry == InitRetry /\ [][NextRetry]_vars

\* the failures named retryable: status 500, 503 or 429, or a message that
\* contains the word unavailable
Retryable(error) ==
  \/ error.status \in {500, 503, 429}
  \/ \E i \in 1..Len(error.message) : error.message[i] = "unavailable"

\* d, 2d, 4d, ...: the first n waits of a call with the delay d
RECURSIVE Backoff(_, _)
Backoff(d, n) == IF n = 0 THEN <<>> ELSE <<d>> \o Backoff(2 * d, n - 1)

\* ---- generateImage, src/services/gemini.ts lines 212-270 ----

\* the arguments of a call
Prompts      == {"a harbour at dawn", "a city at night"}
AspectRatios == {"16:9", "1:1", "3:4"}

\* base64 payloads the remote models answer with
Payloads == {"AAAA", "////"}

\* what ai.models.generateImages can do: answer with an image, answer
\* without generatedImages, answer with an entry that has no imageBytes, or
\* reject
ImagenOutcomes ==
  {[kind |-> "image", imageBytes |-> b] : b \in Payloads}
    \cup {[kind |-> "empty"], [kind |-> "blocked"]}
    \cup {[kind |-> "throws", error |-> e] : e \in Errors}

\* what ai.models.generateContent can do: answer with inlineData in the first
\* part, answer without candidates, answer with a first part that is text,
\* or reject
FlashOutcomes ==
  {[kind |-> "image", data |-> b] : b \in Payloads}
    \cup {[kind |-> "nocandidates"], [kind |-> "text"]}
    \cup {[kind |-> "throws", error |-> e] : e \in Errors}

\* the template strings of lines 234 and 254
dataUrl(mime, base64) == <<"data:", mime, ";base64,", base64>>

\* line 217
getPlaceholder == <<"data:", "image/svg+xml", ";charset=UTF-8,", "AI Image Unavailable">>

\* lines 222-236: what the first try block comes to
tryImagen(o) ==
  IF o.kind = "throws" THEN [end |-> "thrown", error |-> o.error]
  ELSE IF o.kind = "image"
    THEN [end |-> "return", value |-> dataUrl("image/jpeg", o.imageBytes)]
  ELSE [end |-> "next"]

\* lines 242-256: what the second try block comes to
tryFlash(o) ==
  IF o.kind = "throws" THEN [end |-> "thrown", error |-> o.error]
  ELSE IF o.kind = "image"
    THEN [end |-> "return", value |-> dataUrl("image/png", o.data)]
  ELSE [end |-> "next"]

\* a catch clause that lets the error through
rethrow(t) == t

\* lines 237-239 and 257-259: the catch clauses of the two try blocks only
\* log, and control goes on after the block
swallow(t) == IF t.end = "thrown" THEN [end |-> "next"] ELSE t

\* lines 264-267: the catch clause of the body returns the placeholder
outerCatch(t) ==
  IF t.end = "thrown" THEN [end |-> "return", value |-> getPlaceholder] ELSE t

\* lines 19-28, for the body of generateImage as fn: what the call goes to
\* when its body has come to t
afterBody(call, t) ==
  IF t.end = "return"
    THEN [call EXCEPT !.pc = "resolved", !.result = t.value]
  ELSE IF retriesAgain(call.retries, t.error)
    THEN [call EXCEPT !.pc = "imagen", !.retries = @ - 1, !.runs = @ + 1]
  ELSE [call EXCEPT !.pc = "rejected"]

\* the answer of generateImages arrives, lines 224-239
imagenSettles(o) ==
  /\ image.pc = "imagen"
  /\ LET t == outerCatch(swallow(tryImagen(o)))
         call == [image EXCEPT !.imagen = Append(@, o)]
     IN  image' = IF t.end = "next" THEN [call EXCEPT !.pc = "flash"]
                  ELSE afterBody(call, t)
  /\ UNCHANGED <<liveVars, codec, wav, retry, video, app>>

\* the answer of generateContent arrives, lines 243-263
flashSettles(o) ==
  /\ image.pc = "flash"
  /\ LET t == outerCatch(swallow(tryFlash(o)))
         call == [image EXCEPT !.flash = Append(@, o)]
     IN  image' = IF t.end = "next"
                    THEN afterBody(call, [end |-> "return", value |-> getPlaceholder])
                  ELSE afterBody(call, t)
  /\ UNCHANGED <<liveVars, codec, wav, retry, video, app>>

\* withRetry has invoked the body, which has issued the Imagen request
InitImage ==
  /\ Fresh(FALSE) /\ logged = FALSE
  /\ \E q \in Prompts, r \in AspectRatios :
       image = [pc |-> "imagen", prompt |-> q, aspectRatio |-> r,
                retries |-> MaxRetries, runs |-> 1,
                imagen |-> <<>>, flash |-> <<>>, result |-> <<>>]
  /\ codec = Idle /\ wav = Idle /\ retry = Idle /\ video = Idle /\ app = Idle

NextImage ==
  \/ \E o \in ImagenOutcomes : imagenSettles(o)
  \/ \E o \in FlashOutcomes : flashSettles(o)

SpecImage == InitImage /\ [][NextImage]_vars

\* ---- generateVideo, src/services/gemini.ts lines 314-362 ----

MaxRequests == 4     \* generateVideos requests followed in one call
MaxPolls    == 2     \* getVideosOperation requests followed in one call

VideoAspectRatios == {"16:9", "9:16"}

\* line 347
VideoFailed == [status |-> 0, message |-> <<"Video", "generation", "failed">>]

\* an operation the service answers with: not done yet, done with the uri
\* of a video, or done without one
Operations ==
  {[done |-> FALSE, uri |-> ""], [done |-> TRUE, uri |-> "https://video"],
   [done |-> TRUE, uri |-> ""]}

\* lines 348-361: the catch clause; with window.aistudio and the message of a
\* missing key it opens the key dialog and calls generateVideo again, which
\* starts at line 315 with a try block of its own; otherwise it rethrows
videoCatch(call, error) ==
  IF includes(error.message, <<"Requested", "entity", "was", "not", "found">>)
       /\ call.aistudio
    THEN [call EXCEPT !.pc = "start", !.depth = @ + 1, !.dialogs = @ + 1]
    ELSE [call EXCEPT !.pc = "thrown", !.error = error]

\* lines 339-347: the loop condition and what follows the loop
afterOperation(call, operation) ==
  IF ~operation.done THEN [call EXCEPT !.pc = "polling"]
  ELSE IF operation.uri # ""
    THEN [call EXCEPT !.pc = "returned", !.result = <<operation.uri, "&key=", "API_KEY">>]
  ELSE videoCatch(call, VideoFailed)

\* lines 318-321: the key check at the start of a call; selected is the
\* answer of hasSelectedApiKey
start(selected) ==
  /\ video.pc = "start"
  /\ video' = [video EXCEPT !.pc = "request",
                 !.dialogs = IF video.aistudio /\ ~selected THEN @ + 1 ELSE @]
  /\ UNCHANGED <<liveVars, codec, wav, retry, image, app>>

\* lines 326-334: the generateVideos request is issued and answered
requestAnswered(operation) ==
  /\ video.pc = "request"
  /\ video.requests < MaxRequests
  /\ video' = afterOperation([video EXCEPT !.requests = @ + 1, !.polls = 0], operation)
  /\ UNCHANGED <<liveVars, codec, wav, retry, image, app>>

\* lines 326-334 and 348-361: the generateVideos request rejects
requestRejected(error) ==
  /\ video.pc = "request"
  /\ video.requests < MaxRequests
  /\ video' = videoCatch([video EXCEPT !.requests = @ + 1, !.polls = 0], error)
  /\ UNCHANGED <<liveVars, codec, wav, retry, image, app>>

\* lines 338-340: 5 s later the operation is fetched again
pollAnswered(operation) ==
  /\ video.pc = "polling"
  /\ video.polls < MaxPolls
  /\ video' = afterOperation([video EXCEPT !.polls = @ + 1], operation)
  /\ UNCHANGED <<liveVars, codec, wav, retry, image, app>>

\* lines 338-340 and 348-361: fetching the operation rejects
pollRejected(error) ==
  /\ video.pc = "polling"
  /\ video.polls < MaxPolls
  /\ video' = videoCatch([video EXCEPT !.polls = @ + 1], error)
  /\ UNCHANGED <<liveVars, codec, wav, retry, image, app>>

InitVideo ==
  /\ Fresh(FALSE) /\ logged = FALSE
  /\ \E q \in Prompts, r \in VideoAspectRatios, studio \in BOOLEAN :
       video = [pc |-> "start", prompt |-> q, aspectRatio |-> r,
                aistudio |-> studio, depth |-> 0, dialogs |-> 0,
                requests |-> 0, polls |-> 0,
                result |-> <<>>, error |-> [status |-> 0, message |-> <<>>]]
  /\ codec = Idle /\ wav = Idle /\ retry = Idle /\ image = Idle /\ app = Idle

NextVideo ==
  \/ \E selected \in BOOLEAN : start(selected)
  \/ \E operation \in Operations : requestAnswered(operation)
  \/ \E error \in Errors : requestRejected(error)
  \/ \E operation \in Operations : pollAnswered(operation)
  \/ \E error \in Errors : pollRejected(error)

SpecVideo == InitVideo /\ [][NextVideo]_vars

\* ---- handleWrite, src/App.tsx lines 96-187 ----

MaxArticles == 2     \* calls of handleWrite followed
MaxImages   == 2     \* image prompts in one article

Topics == {"", "solar roofs", "electric bikes"}

\* line 148
placeholderId(imageCount) == <<"__IMG_PLACEHOLDER_", imageCount, "__">>

\* the prompt the n-th [IMAGE_PROMPT: ...] of article a carries
promptText(a, n) == [article |-> a, n |-> n]

\* lines 146-156: the loading div written in place of the n-th image prompt of
\* article a
loadingDiv(a, n) ==
  [kind |-> "placeholder", id |-> placeholderId(n), prompt |-> promptText(a, n)]

\* lines 142-159: the article as displayed: its text, then one block for each
\* image prompt
withPlaceholders(a, k) ==
  <<<<[kind |-> "text", article |-> a]>>>> \o [n \in 1..k |-> <<loadingDiv(a, n)>>]

\* lines 144-150 and 163: the entries of promptsToGen and the article each
\* was made for
Items ==
  {[article |-> a, id |-> placeholderId(n), prompt |-> promptText(a, n)] :
     a \in 1..MaxArticles, n \in 1..MaxImages}

\* lines 166-171
imgTag(imageUrl, prompt) == [kind |-> "figure", src |-> imageUrl, alt |-> prompt]

\* what is left of a loading div when the text from its opening tag to the
\* first closing div tag, which closes the spinner inside it, is cut out: the
\* two captions and the closing tag of the loading div
Leftover == [kind |-> "leftover"]

\* lines 173-176: prev.replace(new RegExp(`<div id="${id}".*?<\/div>`, 's'),
\* tag) replaces the first match in whatever article is displayed
replace(prev, id, tag) ==
  LET hits == {i \in 1..Len(prev) :
                 prev[i][1].kind = "placeholder" /\ prev[i][1].id = id}
  IN  IF hits = {} THEN prev
      ELSE LET first == CHOOSE i \in hits : \A j \in hits : i <= j
           IN  [prev EXCEPT ![first] = <<tag, Leftover>>]

\* lines 400 and 484: a topic is typed or picked
setSelectedTopic(topic) ==
  /\ app.selectedTopic # topic
  /\ app' = [app EXCEPT !.selectedTopic = topic]
  /\ UNCHANGED <<liveVars, codec, wav, retry, image, video>>

\* lines 96-108: the Write Article button, up to the await of the article
handleWrite ==
  /\ app.selectedTopic # ""
  /\ app.started < MaxArticles
  /\ app' = [app EXCEPT !.isWriting = TRUE,
                         !.articleHtml = <<>>,
                         !.started = @ + 1,
                         !.writing = @ \cup {app.started + 1}]
  /\ UNCHANGED <<liveVars, codec, wav, retry, image, video>>

\* lines 108-178: the article a arrives with k image prompts; it is displayed
\* with its loading divs and one generateImage call is started for each
articleArrives(a, k) ==
  /\ a \in app.writing
  /\ app' = [app EXCEPT
               !.articleHtml = withPlaceholders(a, k),
               !.isWriting = FALSE,
               !.writing = @ \ {a},
               !.jobs = @ \cup {item \in Items :
                                  item.article = a /\ item.prompt.n <= k}]
  /\ UNCHANGED <<liveVars, codec, wav, retry, image, video>>

\* lines 180-184: generateSEOArticle rejects
articleFails(a) ==
  /\ a \in app.writing
  /\ app' = [app EXCEPT !.isWriting = FALSE, !.writing = @ \ {a}]
  /\ UNCHANGED <<liveVars, codec, wav, retry, image, video>>

\* lines 163-177: a generateImage call resolves, to an image or to the
\* placeholder picture, and its callback edits the displayed article
imageArrives(item, made) ==
  /\ item \in app.jobs
  /\ LET imageUrl == [of |-> item.prompt, image |-> made]
     IN  app' = [app EXCEPT
                   !.articleHtml = replace(@, item.id, imgTag(imageUrl, item.prompt)),
                   !.jobs = @ \ {item}]
  /\ UNCHANGED <<liveVars, codec, wav, retry, image, video>>

InitApp ==
  /\ Fresh(FALSE) /\ logged = FALSE
  /\ app = [pc |-> "mounted", selectedTopic |-> "", isWriting |-> FALSE,
            articleHtml |-> <<>>, started |-> 0, writing |-> {}, jobs |-> {}]
  /\ codec = Idle /\ wav = Idle /\ retry = Idle /\ image = Idle /\ video = Idle

NextApp ==
  \/ \E topic \in Topics : setSelectedTopic(topic)
  \/ handleWrite
  \/ \E a \in 1..MaxArticles, k \in 0..MaxImages : articleArrives(a, k)
  \/ \E a \in 1..MaxArticles : articleFails(a)
  \/ \E item \in Items, made \in BOOLEAN : imageArrives(item, made)

SpecApp == InitApp /\ [][NextApp]_vars

\* the article whose text is displayed
Displayed == app.articleHtml[1][1].article

\* ---- the claims ----

\* C1: at any time at most one session is live: a start cannot begin a new
\* attempt while an earlier one is Connecting, Listening or in Error.
C1_AtMostOneLiveSession == Cardinality({a \in Attempts : Live(a)}) <= 1

\* C2: within a page load the cursor nextStart never decreases, and every
\* segment is handed to the output device with a start time that is not
\* before the output clock's current time at that moment.
C2_CursorMonotoneNeverInPast ==
  [][ /\ (page = "loaded" /\ page' = "loaded"
            => nextStartTimeRef' >= nextStartTimeRef)
      /\ Scheduling => Newest.start >= currentTime(Newest.sess) ]_vars

\* C3: no overlap: within a session every segment starts no earlier than the
\* end of every segment scheduled before it, so the start times are
\* non-decreasing and start[i] >= start[i-1] + d[i-1].
C3_NoOverlap ==
  \A i, j \in 1..Len(sched) :
    (i < j /\ sched[i].sess = sched[j].sess)
      => sched[j].start >= sched[i].start + sched[i].dur

\* C3 witness: two segments of one session are scheduled, the second of which
\* arrived while the handler of the first was suspended in its await.
C3_Witness ==
  \E i, j \in 1..Len(sched) :
    /\ i < j
    /\ sched[i].sess = sched[j].sess
    /\ sched[j].q > 0
    /\ sched[j].arr = sched[i].arr + 1

\* C4: no unnecessary gap: within a session a segment after the first starts
\* no later than the larger of the end of the previous segment and the output
\* clock's time when it is scheduled.
C4_NoUnnecessaryGap ==
  [][ Scheduling =>
        \A i \in 1..Len(sched) :
          Consecutive(i, Len(sched) + 1)
            => Newest.start <= Max(sched[i].start + sched[i].dur,
                                   currentTime(Newest.sess)) ]_vars

\* C5: segments are scheduled in the order in which their messages were
\* received: a segment is never scheduled while the handler of an earlier
\* audio message is still suspended, and of two scheduled segments the one
\* received first is scheduled first and gets the earlier start time.
C5_ArrivalOrderKept ==
  /\ \A i, j \in 1..Len(sched) :
       sched[i].arr < sched[j].arr
         => i < j /\ sched[i].start < sched[j].start
  /\ \A i \in 1..Len(sched), k \in 1..Len(pending) :
       sched[i].arr < pending[k].arr

\* C5 witness: message B arrived while the handler of message A was suspended,
\* and both have been scheduled.
C5_Witness ==
  \E i, j \in 1..Len(sched) :
    /\ i < j
    /\ sched[j].q > 0
    /\ sched[i].arr < sched[j].arr
    /\ sched[i].start < sched[j].start

\* C6: a connection attempt does not stay in Connecting: when the connect
\* promise of the latest attempt has rejected, the failure is reported and the
\* status is no longer 'Connecting...'.
C6_RejectedConnectReported ==
  \A a \in Attempts :
    (a = nAttempts /\ conn[a] = "rejected") => status # "Connecting..."

\* C7: connect without a credential fails at once with a reported status and
\* allocates nothing: no audio context, no microphone request, no remote
\* connection, no ref set, and a new start is possible.
C7_MissingKeyAllocatesNothing ==
  \A a \in Attempts :
    pc[a] = "nokey"
      => /\ status = "Missing API key"
         /\ StartPermitted
         /\ ctxState[a] = "none" /\ mic[a] = "none" /\ conn[a] = "none"
         /\ audioContextRef = 0 /\ outputNodeRef = 0
         /\ mediaStreamRef = 0 /\ sessionRef = 0

\* C7 witness: a connect has returned at the credential check.
C7_Witness == \E a \in Attempts : pc[a] = "nokey"

\* C8: when getUserMedia fails the attempt ends before any remote connection
\* is opened, the failure is reported and active is false; that attempt never
\* asks for the microphone or connects again while the page lives, and a
\* further attempt begins only with a user start.
C8_MicDeniedFailsAttempt ==
  [][ /\ \A a \in Attempts :
           /\ (pc[a] = "gum" /\ pc'[a] = "caught")
                => /\ status' = "Failed to connect"
                   /\ ~active'
                   /\ conn'[a] = "none" /\ mic'[a] = "none"
                   /\ nAttempts' = nAttempts
           /\ (pc[a] = "caught" /\ page = "loaded" /\ page' = "loaded")
                => pc'[a] = "caught" /\ conn'[a] = "none" /\ mic'[a] = "none"
      /\ (nAttempts' > nAttempts => connect) ]_vars

\* C8 witness: the catch block has run for a rejected microphone request.
C8_Witness ==
  \E a \in Attempts : pc[a] = "caught" /\ status = "Failed to connect" /\ ~active

\* C9: capture stops when a session leaves Listening: once a session that was
\* Listening has ended, its microphone stream is released and no captured
\* frame is encoded and handed to the ended session.
C9_CaptureStopsOnEnd ==
  /\ \A a \in Attempts : Ended(a) => mic[a] # "live"
  /\ lastFrame # "late"

\* C10: whenever a start is permitted after a stop, a remote close, a
\* transport error or a failed attempt, no microphone and no output audio
\* context of an earlier session or attempt is still held.
C10_StartFindsResourcesReleased ==
  (StartPermitted /\ status # "Connecting...")
    => \A a \in Attempts : mic[a] # "live" /\ ctxState[a] # "running"

\* C11: no segment is scheduled once teardown has begun: after the user's stop
\* has run, and after a session's error or close, no message of that session
\* (one already being handled included) starts a source or moves the cursor.
C11_NoSchedulingAfterTeardown ==
  [][ /\ (page = "reloading" /\ page' = "reloading")
           => (sched' = sched /\ nextStartTimeRef' = nextStartTimeRef)
      /\ Scheduling => conn[Newest.sess] = "open" ]_vars

\* C12: the user's stop, in its one step, stops every microphone track, closes
\* the output device and discards the session handle, so that the remote
\* session is neither referenced nor open afterwards.
C12_StopReleasesAndDiscards ==
  page = "reloading"
    => /\ \A a \in Attempts :
            /\ mic[a] # "live"
            /\ ctxState[a] # "running"
            /\ conn[a] \notin {"connecting", "open"}
       /\ sessionRef = 0

\* C13: stop is idempotent: disconnect on a session that is already closed
\* changes no state and releases nothing again.
C13_StopIdempotent ==
  [][ (disconnect /\ sessionRef # 0 /\ conn[sessionRef] = "closed")
        => UNCHANGED vars ]_vars

\* C14: while a session is listening every captured frame yields exactly one
\* outbound chunk with the frame's number of samples and the tag
\* audio/pcm;rate=16000; the chunks leave in capture order, none lost and none
\* sent twice.
C14_EachFrameOneChunk ==
  \A a \in Attempts :
    /\ \A i \in 1..Len(SentBy(a)) :
         SentBy(a)[i] =
           [id |-> i, n |-> FrameSize, mimeType |-> "audio/pcm;rate=16000"]
    /\ Len(SentBy(a)) <= captured[a]
    /\ conn[a] = "open" => Len(SentBy(a)) = captured[a]

\* C14 witness: three frames captured after onopen have left as three chunks.
C14_Witness ==
  \E a \in Attempts :
    conn[a] = "open" /\ captured[a] = 3 /\ Len(SentBy(a)) = 3

\* C15: nothing is captured, sent or queued for a session that has not been
\* acknowledged as open: no chunk waits on an unresolved session promise,
\* whatever the number of frames captured, and every frame and chunk belongs
\* to a session whose onopen has run.
C15_NothingBufferedBeforeOpen ==
  /\ \A a \in Attempts : waiting[a] = <<>>
  /\ \A a \in Attempts :
       (captured[a] > 0 \/ Len(SentBy(a)) > 0)
         => conn[a] \in {"open", "error", "closed"} /\ pc[a] = "resolved"

\* C15 witness: one attempt holds its microphone while still connecting and has
\* captured nothing, while frames of an open session are leaving.
C15_Witness ==
  \E a, b \in Attempts :
    /\ conn[a] = "connecting" /\ mic[a] = "live" /\ captured[a] = 0
    /\ conn[b] = "open" /\ Len(SentBy(b)) >= 2

\* C16: a message that carries only a transcript fragment schedules no
\* segment, leaves the cursor where it is and extends the transcript by
\* exactly that fragment.
C16_TextOnlyMessage ==
  [][ TextOnlyDelivered
        => /\ transcription' = Append(transcription, arrivals')
           /\ sched' = sched
           /\ nextStartTimeRef' = nextStartTimeRef ]_vars

\* C16 witness: the one message delivered so far left its fragment and nothing
\* else, although the clock of an open session has moved on.
C16_Witness ==
  /\ arrivals = 1 /\ transcription = <<1>>
  /\ sched = <<>> /\ pending = <<>> /\ nextStartTimeRef = 0
  /\ \E a \in Attempts : conn[a] = "open" /\ currentTime(a) >= 1

\* C17: a message that carries both a fragment and a well-formed audio payload
\* has both processed: the fragment is appended on delivery, and its handler
\* schedules exactly one segment and advances the cursor by its duration.
C17_BothProcessed ==
  [][ /\ (Suspended /\ Latest.text)
           => transcription' = Append(transcription, arrivals')
      /\ (Resumed /\ page = "loaded"
             /\ Head(pending).text /\ Head(pending).audio \in 1..MaxDur)
           => /\ Scheduling
              /\ Newest.arr = Head(pending).arr
              /\ nextStartTimeRef' = nextStartTimeRef + Head(pending).audio ]_vars

\* C18: a malformed audio payload fails for its chunk only: no segment is
\* scheduled for it, the transcript gets the fragment of the same message and
\* is otherwise untouched, the session, status and active flag stay as they
\* are, and the cursor is not moved by it while a well-formed message of the
\* session is still to be scheduled, so that this message and the later ones
\* are scheduled as if the chunk had not arrived.
C18_MalformedChunkIsolated ==
  [][ /\ (Suspended /\ Latest.audio = Malformed)
           => /\ transcription' = IF Latest.text
                                    THEN Append(transcription, arrivals')
                                    ELSE transcription
              /\ sched' = sched
              /\ conn' = conn /\ status' = status /\ active' = active
              /\ (\E k \in 1..Len(pending) :
                    /\ pending[k].sess = Latest.sess
                    /\ pending[k].audio \in 1..MaxDur)
                   => nextStartTimeRef' = nextStartTimeRef
      /\ (Resumed /\ Head(pending).audio = Malformed)
           => /\ sched' = sched
              /\ nextStartTimeRef' = nextStartTimeRef
              /\ transcription' = transcription
              /\ conn' = conn /\ status' = status /\ active' = active ]_vars

\* C19: the transcript is append-only: every step leaves it unchanged, appends
\* the fragment of the message delivered by that step, or resets it to empty;
\* a delivered fragment is never skipped, so the transcript is the
\* concatenation of the fragments in arrival order.
C19_TranscriptAppendOnly ==
  [][ /\ \/ transcription' = transcription
         \/ Delivered /\ transcription' = Append(transcription, arrivals')
         \/ transcription' = <<>>
      /\ (TextOnlyDelivered \/ (Suspended /\ Latest.text))
           => transcription' = Append(transcription, arrivals')
      /\ \A i, j \in 1..Len(transcription') :
           i < j => transcription'[i] < transcription'[j] ]_vars

\* C19 witness: the first and the third message carried fragments, the second
\* none.
C19_Witness == transcription = <<1, 3>>

\* C20: the transcript is reset when a new session starts: a start that
\* follows an ended session, with no session live, begins the new session with
\* an empty transcript.
C20_TranscriptResetOnStart ==
  [][ Restart => transcription' = <<>> ]_vars

\* C21: a restart begins a fresh session: when a start follows an ended
\* session the playback cursor is 0 again, so that the first segment of the
\* new session is placed at the new context's clock and not after the cursor
\* left by the earlier session.
C21_CursorResetOnStart ==
  [][ Restart => nextStartTimeRef' = 0 ]_vars

\* C24: no connection attempt starts on its own: the status becomes
\* "Connecting..." and the attempt counter grows only in a user start, a
\* connection is issued only by the start that is waiting for its microphone,
\* and onerror and onclose begin nothing.
C24_NoAutomaticReconnect ==
  [][ /\ (status' = "Connecting..." /\ status # "Connecting...") => connect
      /\ (nAttempts' > nAttempts) => connect
      /\ \A a \in Attempts :
           /\ (conn'[a] = "connecting" /\ conn[a] # "connecting")
                => (gumResolved(a) /\ pc[a] = "gum")
           /\ (pc'[a] = "gum" /\ pc[a] # "gum") => connect
           /\ (conn'[a] \in {"error", "closed"} /\ conn'[a] # conn[a])
                => (nAttempts' = nAttempts /\ pc' = pc
                    /\ status' \in {"Error occurred", "Disconnected"}) ]_vars

\* C24 witness: a transport error has been reported and no attempt follows it.
C24_Witness ==
  \E a \in Attempts :
    /\ conn[a] = "error" /\ nAttempts = a
    /\ status = "Error occurred" /\ ~active /\ page = "loaded"

\* C26: the cursor and the transcript have one writer: they change only in a
\* step of the message handler (delivery or resumption); connect, the two
\* awaits of connect, onopen, onaudioprocess, onclose, onerror and disconnect
\* leave both as they are.  (The reload that follows disconnect replaces the
\* page with its initial state.)
C26_SingleWriter ==
  [][ (nextStartTimeRef' # nextStartTimeRef \/ transcription' # transcription)
        => \/ \E a \in Attempts, m \in Messages : onmessage(a, m)
           \/ onmessageResume
           \/ reload ]_vars

\* C26 witness: a second start has run after a session that left a cursor and
\* a transcript behind, and both are still there.
C26_Witness ==
  /\ nAttempts = 2 /\ pc[2] = "gum" /\ conn[1] = "closed"
  /\ nextStartTimeRef > 0 /\ transcription # <<>>

\* C22: codec round trip: for every array of samples in [-1.0, 1.0], the
\* empty array and the sample 1.0 included, decoding the chunk that createBlob
\* made of it gives an array of the same length whose samples differ from the
\* originals by at most one quantization step.
C22_RoundTrip ==
  (codec.pc = "decoded" /\ InRange(codec.data))
    => /\ codec.buffer.error = "none"
       /\ Len(codec.buffer.samples) = Len(codec.data)
       /\ \A i \in 1..Len(codec.data) :
            Dist(codec.buffer.samples[i], codec.data[i]) <= 2

\* C23: createBlob turns each sample s into the 16-bit signed integer that
\* s * 32768 gives by dropping the fraction toward zero and wrapping modulo
\* 2^16, without clamping, writes each integer as two bytes, low byte first,
\* in sample order, and gives an empty chunk for an empty array.
C23_EncodeTruncatesAndWraps ==
  codec.pc \in {"encoded", "decoded"}
    => LET bytes == atob(codec.blob.data)
       IN  /\ codec.blob.mimeType = "audio/pcm;rate=16000"
           /\ Len(codec.blob.data) = 4 * ((2 * Len(codec.data) + 2) \div 3)
           /\ Len(bytes) = 2 * Len(codec.data)
           /\ \A i \in 1..Len(codec.data) :
                LET x == codec.data[i]
                    q == IF x >= 0 THEN x \div 2 ELSE -((-x) \div 2)
                    v == ((q + 32768) % 65536) - 32768
                IN  /\ bytes[2 * i - 1] \in 0..255
                    /\ bytes[2 * i] \in 0..255
                    /\ (bytes[2 * i - 1] + 256 * bytes[2 * i] - v) % 65536 = 0

\* C23 witness: the samples 1.0 and -1/65536 have been encoded: 32768 has
\* wrapped to -32768 (bytes 0, 128) and -0.5 has become 0 (bytes 0, 0).
C23_Witness ==
  /\ codec.pc = "encoded"
  /\ codec.data = <<65536, -1>>
  /\ atob(codec.blob.data) = <<0, 128, 0, 0>>

\* C25: pcmToWav returns, for a PCM input of n bytes and the sample rate r,
\* exactly 44 + n bytes: a header that declares 1 channel, 16 bits per sample,
\* sample rate r, byte rate 2r, block align 2, RIFF length 36 + n and data
\* length n, followed by the n PCM bytes unchanged and in order.
C25_WavContainer ==
  wav.pc = "done"
    => LET out == atob(wav.result)
           n   == Len(wav.pcm)
       IN  /\ Len(out) = 44 + n
           /\ SubSeq(out, 1, 4) = <<82, 73, 70, 70>>
           /\ Uint32At(out, 4) = 36 + n
           /\ Uint16At(out, 22) = 1
           /\ Uint32At(out, 24) = wav.sampleRate
           /\ Uint32At(out, 28) = 2 * wav.sampleRate
           /\ Uint16At(out, 32) = 2
           /\ Uint16At(out, 34) = 16
           /\ Uint32At(out, 40) = n
           /\ SubSeq(out, 45, 44 + n) = wav.pcm

\* C25 witness: three PCM bytes at 24000 Hz have been wrapped.
C25_Witness ==
  /\ wav.pc = "done"
  /\ wav.pcm = <<0, 128, 255>>
  /\ wav.sampleRate = 24000
  /\ Len(atob(wav.result)) = 47

\* C28: withRetry invokes fn again only after a retryable failure (status
\* 500, 503 or 429, or a message containing 'unavailable') and only while
\* retries remain, after waiting delay, 2*delay, 4*delay, ...; fn is invoked
\* at most retries + 1 times; a non-retryable failure is rethrown at once, so
\* after exactly one invocation when it is the first; and after the first
\* success, or after a throw, fn is not invoked again.
C28_BoundedRetry ==
  [][ /\ retry.pc \in {"returned", "thrown"} => retry' = retry
      /\ retry'.calls <= retry.retries0 + 1
      /\ retry'.waits = Backoff(retry.delay0, Len(retry'.waits))
      /\ (retry'.calls > retry.calls /\ retry.calls > 0)
           => /\ retry'.calls = retry.calls + 1
              /\ Retryable(retry.errors[retry.calls])
              /\ retry.calls <= retry.retries0
              /\ Len(retry.waits) = retry.calls
      /\ retry'.pc = "waiting"
           => Retryable(retry'.errors[retry'.calls]) /\ retry'.calls <= retry.retries0
      /\ retry'.pc = "thrown"
           => /\ Len(retry'.errors) = retry'.calls
              /\ Retryable(retry'.errors[retry'.calls]) => retry'.calls = retry.retries0 + 1
              /\ ~Retryable(retry'.errors[1]) => retry'.calls = 1
      /\ retry'.pc = "returned"
           => /\ retry'.calls = Len(retry'.errors) + 1
              /\ \A i \in 1..Len(retry'.errors) : Retryable(retry'.errors[i]) ]_vars

\* C28 witness: a call with the defaults (3 retries, 1000 ms) has invoked fn
\* four times, waited 1000, 2000 and 4000 ms, and rethrown the last failure.
C28_Witness ==
  /\ retry.pc = "thrown"
  /\ retry.retries0 = 3 /\ retry.delay0 = 1000
  /\ retry.calls = 4
  /\ retry.waits = <<1000, 2000, 4000>>

\* C29: generateImage never fails: whatever the two remote calls do, it
\* resolves to a data URL; Imagen is asked first and the Flash image model
\* only if Imagen threw or returned no image; the result is the placeholder
\* exactly when both produced no image; and the body runs exactly once per
\* call, withRetry never running it again.
C29_ImageNeverFails ==
  /\ image.pc \in {"imagen", "flash", "resolved"}
  /\ image.runs = 1
  /\ Len(image.imagen) <= 1 /\ Len(image.flash) <= 1
  /\ image.flash # <<>> => (image.imagen # <<>> /\ image.imagen[1].kind # "image")
  /\ image.pc = "flash" => image.imagen # <<>>
  /\ image.pc = "resolved"
       => /\ image.imagen # <<>>
          /\ image.result[1] = "data:"
          /\ image.imagen[1].kind = "image"
               => /\ image.flash = <<>>
                  /\ image.result = <<"data:", "image/jpeg", ";base64,", image.imagen[1].imageBytes>>
          /\ image.imagen[1].kind # "image"
               => /\ image.flash # <<>>
                  /\ image.flash[1].kind = "image"
                       => image.result = <<"data:", "image/png", ";base64,", image.flash[1].data>>
          /\ image.result[2] = "image/svg+xml"
               <=> /\ image.imagen[1].kind # "image"
                   /\ image.flash # <<>>
                   /\ image.flash[1].kind # "image"

\* C29 witness: Imagen rejected with status 503, which withRetry would retry,
\* the Flash model rejected too, and the call resolved to the placeholder.
C29_Witness ==
  /\ image.pc = "resolved"
  /\ image.imagen # <<>> /\ image.imagen[1].kind = "throws"
  /\ image.imagen[1].error.status = 503
  /\ image.flash # <<>> /\ image.flash[1].kind = "throws"
  /\ image.result[2] = "image/svg+xml"
  /\ image.runs = 1

\* C27: generateVideo retries at most once after a 'Requested entity was not
\* found' error: whatever the service answers, one call issues at most two
\* generateVideos requests, also when the error recurs on the retry.
C27_RetriesOnce == video.pc # "idle" => (video.requests <= 2 /\ video.depth <= 1)

\* C30: background image generation fills only its own placeholder: in the
\* displayed article a picture stands only where the placeholder of its own
\* prompt stood, so a picture whose generation was started for an earlier
\* article is never shown in a later article.
C30_OwnPlaceholderOnly ==
  (app.pc = "mounted" /\ app.articleHtml # <<>>)
    => \A i \in 2..Len(app.articleHtml) :
         app.articleHtml[i][1].kind = "figure"
           => /\ app.articleHtml[i][1].alt = [article |-> Displayed, n |-> i - 1]
              /\ app.articleHtml[i][1].src.of = [article |-> Displayed, n |-> i - 1]

====
